---------------------------- MODULE Spec2Model ----------------------------
(***************************************************************************)
(* Model of src/main.py: the Portal SDK version watcher.  One process      *)
(* loads a baseline {version, fileSize} from LOCK_FILE, initialises it     *)
(* from the remote endpoint when it is missing, and then polls: every      *)
(* iteration calls check_version, which fetches the last entry of the      *)
(* remote "versions" list, compares it with the baseline, rewrites         *)
(* LOCK_FILE and sends a Discord webhook on a mismatch.                    *)
(*                                                                         *)
(* The coroutine suspends at its awaits (the HTTP GET, the webhook         *)
(* execute, the sleep), so each await is a position of pc and the code     *)
(* between two awaits is one action.                                       *)
(***************************************************************************)
EXTENDS Integers, Sequences, FiniteSets, TLC

(***************************************************************************)
(* Bounds of the model.                                                    *)
(***************************************************************************)
\* file sizes range over 0..MaxSize
MaxSize == 2
\* number of distinct non-empty version strings the remote can publish
NumVersions == 2
\* longest "versions" list of a response
MaxList == 2
\* byte counts are taken up to Window away from each of the Landmarks
Window == 2

(***************************************************************************)
(* JSON / Python values.  Every value has the same shape so that values of *)
(* different Python types can be compared: t is the type, n the integer    *)
(* payload, s the string payload.  "missing" stands for a key that a dict  *)
(* does not hold.                                                          *)
(***************************************************************************)
JNull == [t |-> "null", n |-> 0, s |-> ""]
JMissing == [t |-> "missing", n |-> 0, s |-> ""]
JInt(k) == [t |-> "int", n |-> k, s |-> ""]
JStr(x) == [t |-> "str", n |-> 0, s |-> x]

\* Python truthiness, as used by "not x" and "if x" (lines 107, 119, 166, 177)
Truthy(v) ==
    CASE v.t = "null" -> FALSE
      [] v.t = "missing" -> FALSE
      [] v.t = "int" -> v.n # 0
      [] v.t = "str" -> v.s # ""

\* d[key] never raising, as if the key were read with dict.get
KeyMissing_never(d, key) == FALSE
\* d[key] raises KeyError: the dict lacks the key (lines 112, 122, 123)
KeyMissing(d, key) == d[key] = JMissing
\* dict.get(key): the value, or None for a key the dict lacks (lines 161-162)
DictGet(d, key) == IF d[key] = JMissing THEN JNull ELSE d[key]

VersionNames == <<"1.0.0", "1.0.1", "2.0.0", "2.0.1", "3.0.0">>
Versions == {VersionNames[i] : i \in 1..NumVersions}
Sizes == 0..MaxSize

DigitChars == <<"0", "1", "2", "3", "4", "5", "6", "7", "8", "9">>
RECURSIVE IntToStr(_)
\* decimal rendering of a non-negative integer (the JSON text of a number)
IntToStr(k) ==
    IF k < 10 THEN DigitChars[k + 1]
    ELSE IntToStr(k \div 10) \o DigitChars[(k % 10) + 1]

\* the value of one decimal digit character
DigitValue(c) == CHOOSE d \in 0..9 : DigitChars[d + 1] = c
\* a non-empty string of decimal digits
IsDecimal(x) ==
    /\ Len(x) > 0
    /\ \A i \in 1..Len(x) : \E d \in 0..9 : DigitChars[d + 1] = SubSeq(x, i, i)
RECURSIVE StrToInt(_)
\* the integer a string of decimal digits denotes
StrToInt(x) ==
    IF Len(x) = 1 THEN DigitValue(x)
    ELSE 10 * StrToInt(SubSeq(x, 1, Len(x) - 1)) + DigitValue(SubSeq(x, Len(x), Len(x)))

\* int(v) at line 112: does it raise (TypeError for None, ValueError for text)
IntRaises(v) ==
    CASE v.t = "int" -> FALSE
      [] v.t = "str" -> ~IsDecimal(v.s)
      [] OTHER -> TRUE
\* int(v) at line 112 when it does not raise
IntCoerce(v) == IF v.t = "int" THEN v ELSE JInt(StrToInt(v.s))

(***************************************************************************)
(* LOCK_FILE.  json.dump writes each key of the dict as a JSON token;      *)
(* json.load parses the tokens back.  The file is absent, holds a JSON     *)
(* object (a token per key, "" for a key the object lacks), or holds text  *)
(* json.load rejects (a truncated write, a foreign file).                  *)
(***************************************************************************)
\* the JSON text of a value, as json.dump writes it (line 136)
JsonEncode(v) ==
    CASE v.t = "null" -> "null"
      [] v.t = "int" -> IntToStr(v.n)
      [] v.t = "str" -> "\"" \o v.s \o "\""
      [] v.t = "missing" -> ""
\* the value of a JSON token, as json.load reads it (line 160)
JsonDecode(tok) ==
    IF tok = "" THEN JMissing
    ELSE IF tok = "null" THEN JNull
    ELSE IF SubSeq(tok, 1, 1) = "\"" THEN JStr(SubSeq(tok, 2, Len(tok) - 1))
    ELSE JInt(StrToInt(tok))

NoFile == [kind |-> "absent", version |-> "", fileSize |-> ""]
GarbageFile == [kind |-> "garbage", version |-> "", fileSize |-> ""]
\* json.dump(details, f) at line 136: the document written for a dict
JsonDump(d) ==
    [kind |-> "doc", version |-> JsonEncode(d.version), fileSize |-> JsonEncode(d.fileSize)]
\* json.load(f) at line 160, for a file that holds a JSON object
JsonLoad(f) == [version |-> JsonDecode(f.version), fileSize |-> JsonDecode(f.fileSize)]

(***************************************************************************)
(* The remote endpoint.  A response is a transport failure, or an HTTP     *)
(* status with a body that is not JSON, a JSON object without "versions",  *)
(* or a JSON object whose "versions" is a list of entries.                 *)
(***************************************************************************)
RemoteVersionValues == {JMissing, JNull, JStr("")} \cup {JStr(v) : v \in Versions}
\* a size comes as a number, as a numeric string, as text, as null or not at all
RemoteSizeValues ==
    {JMissing, JNull, JStr("x")} \cup {JInt(k) : k \in Sizes}
        \cup {JStr(IntToStr(k)) : k \in Sizes}
RemoteEntries == [version : RemoteVersionValues, fileSize : RemoteSizeValues]
\* the entries before the last one of a list: well-formed records
PrefixEntries == [version : {JStr(v) : v \in Versions}, fileSize : {JInt(k) : k \in Sizes}]
VersionLists ==
    {<<>>} \cup UNION {{p \o <<e>> : p \in [1..(len - 1) -> PrefixEntries], e \in RemoteEntries} :
                          len \in 1..MaxList}
EmptyResponse ==
    [net |-> "ok", status |-> 200, json |-> FALSE, hasVersions |-> FALSE, versions |-> <<>>]
Responses ==
    {[EmptyResponse EXCEPT !.net = "error", !.status = 0]}
        \cup {[EmptyResponse EXCEPT !.status = st] : st \in {404, 500}}
        \cup {EmptyResponse}
        \cup {[EmptyResponse EXCEPT !.json = TRUE]}
        \cup {[EmptyResponse EXCEPT !.json = TRUE, !.hasVersions = TRUE, !.versions = l] :
                 l \in VersionLists}

NoEntry == [version |-> JMissing, fileSize |-> JMissing]
\* line 111 taking versions_list[0]
LatestEntry_first(versions_list) == versions_list[1]
\* versions_list[-1] at line 111
LatestEntry(versions_list) == versions_list[Len(versions_list)]

\* get_version_details, lines 93-113: an entry, None ("none"), or the exception
\* raised (int(None) raises TypeError, int of a text ValueError)
get_version_details(resp) ==
    IF resp.net = "error" THEN [kind |-> "RequestError", entry |-> NoEntry]
    ELSE IF resp.status # 200 THEN [kind |-> "none", entry |-> NoEntry]
    ELSE IF ~resp.json THEN [kind |-> "JSONDecodeError", entry |-> NoEntry]
    ELSE LET versions_list == IF resp.hasVersions THEN resp.versions ELSE <<>>
         IN  IF Len(versions_list) = 0 THEN [kind |-> "none", entry |-> NoEntry]
             ELSE LET latest_entry == LatestEntry(versions_list)
                  IN  IF KeyMissing(latest_entry, "fileSize")
                      THEN [kind |-> "KeyError", entry |-> NoEntry]
                      ELSE IF IntRaises(latest_entry.fileSize)
                      THEN [kind |-> IF latest_entry.fileSize.t = "str"
                                     THEN "ValueError" ELSE "TypeError",
                            entry |-> NoEntry]
                      ELSE [kind |-> "entry",
                            entry |-> [latest_entry EXCEPT !.fileSize = IntCoerce(@)]]

(***************************************************************************)
(* HumanBytes, lines 26-68.  num is an integer of bytes; the float the     *)
(* loop divides is kept as the fraction n/d, d a power of unit_step.  A    *)
(* float differs from that fraction only by its representation error, so   *)
(* a comparison or a rounding gives the fraction's result except where     *)
(* the fraction sits exactly on the boundary: there fp_up says on which    *)
(* side the float lies, and the caller draws it from BOOLEAN.              *)
(***************************************************************************)
METRIC_LABELS == <<"B", "kB", "MB", "GB", "TB", "PB", "EB", "ZB", "YB">>
BINARY_LABELS == <<"B", "KiB", "MiB", "GiB", "TiB", "PiB", "EiB", "ZiB", "YiB">>
\* PRECISION_OFFSETS, line 29, as 1/offset: 0.5, 0.05, 0.005, 0.0005
PRECISION_OFFSETS_INV == <<2, 20, 200, 2000>>
\* PRECISION_FORMATS, line 30, as the power of ten of "{:.0f}" .. "{:.3f}"
PRECISION_SCALES == <<1, 10, 100, 1000>>
Precisions == 0..3

\* line 53, "num < unit_step_thresh", for num = n/d: unit_step - n/d > offset
BelowThreshold(n, d, unit_step, metric, precision, fp_up) ==
    LET gap == unit_step * d - n
        inv == PRECISION_OFFSETS_INV[precision + 1]
    IN  IF gap <= 0 THEN FALSE
        ELSE IF gap >= d THEN TRUE
        ELSE IF gap * inv = d THEN metric /\ ~fp_up
        ELSE gap * inv > d

RECURSIVE ScaleUnits(_, _, _, _, _, _, _, _)
\* the loop of lines 52-66 from the label at position i on, num being n/d: the
\* fraction and the position of the label when the loop ends
ScaleUnits(n, d, i, unit_labels, unit_step, metric, precision, fp_up) ==
    IF BelowThreshold(n, d, unit_step, metric, precision, fp_up)
    THEN [n |-> n, d |-> d, i |-> i]
    ELSE IF i = Len(unit_labels) THEN [n |-> n, d |-> d, i |-> i]
    ELSE ScaleUnits(n, d * unit_step, i + 1, unit_labels, unit_step, metric,
                    precision, fp_up)

RECURSIVE ZeroPadded(_, _)
\* the last width decimal digits of k, leading zeros kept
ZeroPadded(k, width) ==
    IF width = 0 THEN ""
    ELSE ZeroPadded(k \div 10, width - 1) \o DigitChars[(k % 10) + 1]

\* "{:.<precision>f}" of n/d, line 68: rounded to the nearest, an exact half to
\* the even digit when the float is exact (binary units) and to the side the
\* float lies on otherwise
FixedPoint(n, d, metric, precision, fp_up) ==
    LET scale == PRECISION_SCALES[precision + 1]
        q == (n * scale) \div d
        r == (n * scale) % d
        rounded == IF 2 * r < d THEN q
                   ELSE IF 2 * r > d THEN q + 1
                   ELSE IF metric THEN (IF fp_up THEN q + 1 ELSE q)
                   ELSE (IF q % 2 = 0 THEN q ELSE q + 1)
    IN  IntToStr(rounded \div scale)
            \o (IF precision = 0 THEN "" ELSE "." \o ZeroPadded(rounded % scale, precision))

\* line 45 with the two steps exchanged: metric labels on steps of 1024
unit_step_swapped(metric) == IF metric THEN 1024 ELSE 1000
\* line 45
unit_step(metric) == IF metric THEN 1000 ELSE 1024

\* HumanBytes.format(num, metric, precision), lines 33-68
HumanBytes_format(num, metric, precision, fp_up) ==
    LET unit_labels == IF metric THEN METRIC_LABELS ELSE BINARY_LABELS
        is_negative == num < 0
        magnitude == IF is_negative THEN 0 - num ELSE num
        r == ScaleUnits(magnitude, 1, 1, unit_labels, unit_step(metric), metric,
                        precision, fp_up)
    IN  (IF is_negative THEN "-" ELSE "")
            \o FixedPoint(r.n, r.d, metric, precision, fp_up)
            \o " " \o unit_labels[r.i]

(***************************************************************************)
(* send_discord_webhook, lines 70-91: the fields of the embed it sends.    *)
(***************************************************************************)
\* line 73 with the comparison turned round
gets_plus_swapped(file_size, old_size) == old_size > file_size
\* line 73: does the delta get an explicit "+"
gets_plus(file_size, old_size) == old_size < file_size
\* lines 72-74: the delta string
SizeChange(file_size, old_size, fp_up) ==
    LET size_change == HumanBytes_format(file_size - old_size, TRUE, 3, fp_up)
    IN  IF gets_plus(file_size, old_size) THEN "+" \o size_change ELSE size_change
\* lines 71-86: the fields added to the embed, in order; code says that the
\* value is the text put between two backticks (Discord's inline code)
EmbedFields(version, file_size, old_version, old_size, fp_up) ==
    <<[name |-> "New Version", code |-> TRUE, text |-> old_version \o " -> " \o version],
      [name |-> "File Size", code |-> FALSE,
       text |-> HumanBytes_format(file_size, TRUE, 1, fp_up)],
      [name |-> "", code |-> FALSE,
       text |-> "[Download](https://download.portal.battlefield.com/PortalSDK.zip)"]>>
        \o (IF file_size - old_size # 0
            THEN <<[name |-> "Size Change", code |-> TRUE,
                    text |-> SizeChange(file_size, old_size, fp_up)]>>
            ELSE <<>>)

(***************************************************************************)
(* check_version, lines 115-150.                                           *)
(***************************************************************************)
\* line 125
version_mismatch(current_version, new_version) == current_version # new_version
\* line 126 written with "is not": two equal sizes are still two objects
size_mismatch_identity(current_size, new_size) == TRUE
\* line 126
size_mismatch(current_size, new_size) == current_size # new_size
\* line 133: the condition of the update branch
update_needed(current_version, current_size, new_version, new_size) ==
    version_mismatch(current_version, new_version) \/ size_mismatch(current_size, new_size)

\* what open(LOCK_FILE, 'w') and json.dump can do (lines 135-136)
WriteOutcomes == {"ok", "open_fails", "dump_fails"}
\* lines 135-136 leaving the file as it was although nothing raised
FileAfterWrite_lost(file, details, outcome) == file
\* LOCK_FILE after the write at lines 135-136: open(.., 'w') truncates, dump fills
FileAfterWrite(file, details, outcome) ==
    CASE outcome = "ok" -> JsonDump(details)
      [] outcome = "open_fails" -> file
      [] outcome = "dump_fails" -> GarbageFile
\* what await webhook.execute() can do (line 91)
HookOutcomes == {"ok", "fail"}

\* the arguments of send_discord_webhook at line 138
NotifyArgs(new_version, new_size, old_version, old_size) ==
    [version |-> new_version, file_size |-> new_size,
     old_version |-> old_version, old_size |-> old_size]

\* the record of one call of check_version: its arguments, what it fetched, wrote,
\* sent and returned, and the last entry of the response as it was received
NoCall ==
    [arg_version |-> JNull, arg_size |-> JNull, fetches |-> 0, fetched |-> "no",
     new_version |-> JNull, new_size |-> JNull, writes |-> <<>>, write |-> "none",
     notifs |-> <<>>, hook |-> "none", returned |-> FALSE,
     ret_version |-> JNull, ret_size |-> JNull, received |-> NoEntry]
\* entering check_version: line 117 issues the GET and suspends
BeginCall(version, size) ==
    [NoCall EXCEPT !.arg_version = version, !.arg_size = size, !.fetches = 1,
                   !.fetched = "pending"]
\* the failure paths returning "None, None" instead of the pair passed in
ReturnNothing(c) == [c EXCEPT !.returned = TRUE, !.ret_version = JNull, !.ret_size = JNull]
\* "return current_sdk_version, current_sdk_size" (lines 120, 143, 147, 150)
ReturnCurrent(c) ==
    [c EXCEPT !.returned = TRUE, !.ret_version = c.arg_version, !.ret_size = c.arg_size]
\* line 141 returning the pair passed in: the baseline never advances
ReturnNew_stale(c) ==
    [c EXCEPT !.returned = TRUE, !.ret_version = c.arg_version, !.ret_size = c.arg_size]
\* "return new_version, new_size" (line 141)
ReturnNew(c) ==
    [c EXCEPT !.returned = TRUE, !.ret_version = c.new_version, !.ret_size = c.new_size]

\* the last entry of the "versions" list of a response, as received
ReceivedEntry(resp) ==
    IF resp.net = "ok" /\ resp.status = 200 /\ resp.json /\ resp.hasVersions
       /\ Len(resp.versions) > 0
    THEN resp.versions[Len(resp.versions)]
    ELSE NoEntry
\* what "await get_version_details()" at line 117 can yield or raise, over every
\* response of the endpoint, with the last entry the response carried
FetchResults ==
    {[details |-> get_version_details(resp), received |-> ReceivedEntry(resp)] :
        resp \in Responses}

\* line 138 put after the try block: the webhook is called whatever the write did
webhook_reached_always(outcome) == TRUE
\* line 138 is reached only when lines 135-137 raised nothing
webhook_reached(outcome) == outcome = "ok"

\* lines 117-138 once get_version_details has answered with details: the call
\* record when check_version next suspends (at the webhook) or returns
AfterFetch(c, details, outcome) ==
        IF details.kind # "entry"
        THEN ReturnCurrent([c EXCEPT !.fetched = details.kind])
        ELSE IF KeyMissing(details.entry, "version")
        THEN ReturnCurrent([c EXCEPT !.fetched = "KeyError"])
        ELSE LET new_version == details.entry.version
                 new_size == details.entry.fileSize
                 c1 == [c EXCEPT !.fetched = "entry", !.new_version = new_version,
                                 !.new_size = new_size]
             IN  IF ~update_needed(c.arg_version, c.arg_size, new_version, new_size)
                 THEN ReturnCurrent(c1)
                 ELSE LET c2 == [c1 EXCEPT !.writes = Append(@, JsonDump(details.entry)),
                                           !.write = outcome]
                      IN  IF ~webhook_reached(outcome) THEN ReturnNew(c2)
                          \* line 72: file_size - old_size raises unless old_size is a number
                          ELSE IF c.arg_size.t # "int" THEN ReturnNew(c2)
                          ELSE [c2 EXCEPT !.notifs =
                                              Append(@, NotifyArgs(new_version, new_size,
                                                                   c.arg_version, c.arg_size)),
                                          !.hook = "pending"]
\* LOCK_FILE when check_version next suspends or returns
FileAfterFetch(c, file, details, outcome) ==
        IF /\ details.kind = "entry"
           /\ ~KeyMissing(details.entry, "version")
           /\ update_needed(c.arg_version, c.arg_size, details.entry.version,
                            details.entry.fileSize)
        THEN FileAfterWrite(file, details.entry, outcome)
        ELSE file
\* the webhook's exception reaching the outer handler (lines 148-150) instead
\* of the inner one: the call gives back the old pair
AfterWebhook_propagates(c, outcome) ==
    IF outcome = "fail" THEN ReturnCurrent([c EXCEPT !.hook = outcome])
    ELSE ReturnNew([c EXCEPT !.hook = outcome])
\* lines 139-141 once webhook.execute() has answered or raised
AfterWebhook(c, outcome) == ReturnNew([c EXCEPT !.hook = outcome])

(***************************************************************************)
(* The process.                                                            *)
(***************************************************************************)
VARIABLES
    pc,                   \* where the process is: "import" (lines 1-20), "start",
                          \* "fetch", "webhook", "loop", "sleep", "exit_1" (line
                          \* 20), "exited" (line 174), "interrupted"
    webhook_url,          \* os.getenv("DISCORD_WEBHOOK_URL") of this run
    exit_code,            \* the exit status of the process (JNull: none yet)
    diagnostic,           \* the message line 19 printed ("": none)
    caller,               \* the call site of the running check_version: "init"
                          \* (line 168) or "loop" (line 178)
    current_sdk_version,  \* main's local, lines 153, 161, 168, 178
    current_sdk_size,     \* main's local, lines 154, 162, 168, 178
    lock_file,            \* the content of LOCK_FILE
    call,                 \* the running (or last) call of check_version
    skipped,              \* the last loop iteration did not call check_version
    file_reads,           \* times this run opened LOCK_FILE for reading
    init_fetches,         \* times this run called check_version at line 168
    persisted,            \* history: the record LOCK_FILE holds from the last
                          \* json.dump of check_version (NoEntry: none, or lost)
    hook_failed_for,      \* history: the record whose webhook failed in this run
                          \* and that is still the latest record adopted
    remote_streak,        \* history: the record the fetches of this run have been
                          \* obtaining since it last changed, the notifications
                          \* attempted for it, and whether its write failed
    baseline_from,        \* history: where this run's baseline came from: "file",
                          \* "fetch", or "none" (the placeholder of line 168)
    write_failed,         \* history: a write of LOCK_FILE failed in this run
    fetches_in_flight,    \* GETs of line 97 issued and not yet answered
    hooks_in_flight,      \* webhook.execute() calls (line 91) not yet answered
    probe                 \* one call of a function on its own: the function, its
                          \* arguments, and what it returned or raised

vars == <<pc, webhook_url, exit_code, diagnostic, caller, current_sdk_version, current_sdk_size, lock_file, call, skipped,
          file_reads, init_fetches, persisted, hook_failed_for, remote_streak,
          baseline_from, write_failed, fetches_in_flight, hooks_in_flight, probe>>

\* no record has been obtained in this run
NoStreak == [rec |-> NoEntry, notifs |-> 0, write_failed |-> FALSE]

\* no function is called on its own
NoProbe == [fn |-> "none", in |-> <<>>, out |-> <<>>, done |-> FALSE]

\* the documents LOCK_FILE can hold when a run starts
FileVersionTokens == {JsonEncode(v) : v \in RemoteVersionValues}
FileSizeTokens == {JsonEncode(v) : v \in {JMissing, JNull} \cup {JInt(k) : k \in Sizes}}
InitialFiles ==
    {NoFile, GarbageFile}
        \cup [kind : {"doc"}, version : FileVersionTokens, fileSize : FileSizeTokens]

\* the values os.getenv("DISCORD_WEBHOOK_URL") can give: None when the variable
\* is not set, the empty string, a URL
EnvValues == {JNull, JStr(""), JStr("https://discord.example/api/webhooks/1")}
\* line 19
ConfigDiagnostic == "DISCORD_WEBHOOK_URL environment variable not set. Exiting..."

Init ==
    /\ pc = "import"
    /\ webhook_url \in EnvValues
    /\ exit_code = JNull
    /\ diagnostic = ""
    /\ caller = "none"
    /\ current_sdk_version = JNull
    /\ current_sdk_size = JNull
    /\ lock_file \in InitialFiles
    /\ call = NoCall
    /\ skipped = FALSE
    /\ file_reads = 0
    /\ init_fetches = 0
    /\ persisted = NoEntry
    /\ hook_failed_for = NoEntry
    /\ remote_streak = NoStreak
    /\ baseline_from = "none"
    /\ write_failed = FALSE
    /\ fetches_in_flight = 0
    /\ hooks_in_flight = 0
    /\ probe = NoProbe

\* lines 156-164: the baseline main reads from LOCK_FILE (None, None when the
\* file is absent or json.load raises)
LoadBaseline(file) ==
    IF file.kind = "doc"
    THEN LET data == JsonLoad(file)
         IN  [version |-> DictGet(data, "version"), fileSize |-> DictGet(data, "fileSize")]
    ELSE [version |-> JNull, fileSize |-> JNull]

\* line 166 written with "and": only a file lacking both fields initialises
needs_init_and(version, size) == ~Truthy(version) /\ ~Truthy(size)
\* line 166: does main fetch to initialise
needs_init(version, size) == ~Truthy(version) \/ ~Truthy(size)
\* line 172: does main give up
no_baseline(version, size) == version = JNull \/ size = JNull
\* line 177: does the loop iteration call check_version
loop_guard(version, size) == Truthy(version) /\ Truthy(size)

\* where main goes when check_version returns (lines 168-175, 178-179)
AfterReturn(site, version, size) ==
    IF site = "init"
    THEN IF no_baseline(version, size) THEN "exited" ELSE "loop"
    ELSE "sleep"

\* line 18 testing "is None": an empty DISCORD_WEBHOOK_URL passes
config_missing_is_none(url) == url = JNull
\* line 18: is the webhook target missing
config_missing(url) == ~Truthy(url)

\* the module is loaded, lines 1-20 (and 184-185: asyncio.run(main()))
ModuleLoad ==
    /\ pc = "import"
    /\ IF config_missing(webhook_url)
       THEN /\ diagnostic' = ConfigDiagnostic
            /\ exit_code' = JInt(1)
            /\ pc' = "exit_1"
       ELSE /\ pc' = "start"
            /\ UNCHANGED <<diagnostic, exit_code>>
    /\ UNCHANGED <<webhook_url, caller, current_sdk_version, current_sdk_size,
                   lock_file, call, skipped, file_reads, init_fetches, persisted,
                   hook_failed_for>>
    /\ UNCHANGED probe
    /\ UNCHANGED <<fetches_in_flight, hooks_in_flight>>
    /\ UNCHANGED <<remote_streak, baseline_from, write_failed>>

\* main, lines 153-175, up to its first await or to the loop
Start ==
    /\ pc = "start"
    /\ LET loaded == LoadBaseline(lock_file)
       IN  /\ current_sdk_version' = loaded.version
           /\ current_sdk_size' = loaded.fileSize
           /\ file_reads' = IF lock_file.kind = "absent" THEN file_reads ELSE file_reads + 1
           /\ IF needs_init(loaded.version, loaded.fileSize)
              THEN /\ call' = BeginCall(JStr("INVALID"), JInt(0))
                   /\ caller' = "init"
                   /\ init_fetches' = init_fetches + 1
                   /\ fetches_in_flight' = fetches_in_flight + 1
                   /\ pc' = "fetch"
              ELSE /\ pc' = IF no_baseline(loaded.version, loaded.fileSize)
                            THEN "exited" ELSE "loop"
                   /\ UNCHANGED <<call, caller, init_fetches, fetches_in_flight>>
    /\ UNCHANGED <<lock_file, skipped, persisted, hook_failed_for>>
    \* line 174: main returns and asyncio.run ends the process
    /\ exit_code' = IF pc' = "exited" THEN JInt(0) ELSE exit_code
    /\ UNCHANGED <<webhook_url, diagnostic>>
    /\ UNCHANGED probe
    /\ UNCHANGED hooks_in_flight
    /\ baseline_from' = IF needs_init(current_sdk_version', current_sdk_size')
                        THEN "none" ELSE "file"
    /\ UNCHANGED <<remote_streak, write_failed>>

\* line 138 calling send_discord_webhook without "await": the coroutine runs
\* as a task of its own and check_version goes on
webhook_fire_and_forget == FALSE
\* line 138: check_version awaits send_discord_webhook
webhook_awaited == TRUE

\* the history of the record obtained, once the call c has fetched
StreakAfterFetch(streak, c) ==
    LET rec == [version |-> c.new_version, fileSize |-> c.new_size]
        failed == c.write \in {"open_fails", "dump_fails"}
    IN  IF c.fetched # "entry" THEN streak
        ELSE IF rec = streak.rec
        THEN [streak EXCEPT !.notifs = @ + Len(c.notifs),
                            !.write_failed = @ \/ failed]
        ELSE [rec |-> rec, notifs |-> Len(c.notifs), write_failed |-> failed]

\* check_version from the answer of the GET (line 97) to the webhook's await
\* (line 91) or to its return, and main's assignment of the returned pair
FetchReturns ==
    /\ pc = "fetch"
    /\ \E fetch \in FetchResults, outcome \in WriteOutcomes :
          LET suspended == [AfterFetch(call, fetch.details, outcome)
                               EXCEPT !.received = fetch.received]
              \* line 138: send_discord_webhook is started; awaited, it holds
              \* check_version until webhook.execute() has answered
              c == IF suspended.hook = "pending" /\ ~webhook_awaited
                   THEN ReturnNew(suspended) ELSE suspended
          IN  /\ call' = c
              /\ fetches_in_flight' = fetches_in_flight - 1
              /\ hooks_in_flight' = IF suspended.hook = "pending"
                                       THEN hooks_in_flight + 1 ELSE hooks_in_flight
              /\ lock_file' = FileAfterFetch(call, lock_file, fetch.details, outcome)
              /\ IF c.returned
                 THEN /\ current_sdk_version' = c.ret_version
                      /\ current_sdk_size' = c.ret_size
                      /\ pc' = AfterReturn(caller, c.ret_version, c.ret_size)
                 ELSE /\ pc' = "webhook"
                      /\ UNCHANGED <<current_sdk_version, current_sdk_size>>
              /\ persisted' = IF c.write = "ok"
                                 THEN [version |-> c.new_version, fileSize |-> c.new_size]
                              ELSE IF c.write = "dump_fails" THEN NoEntry
                              ELSE persisted
              /\ hook_failed_for' = IF c.write = "none" THEN hook_failed_for ELSE NoEntry
    /\ UNCHANGED <<caller, skipped, file_reads, init_fetches>>
    \* line 174: main returns and asyncio.run ends the process
    /\ exit_code' = IF pc' = "exited" THEN JInt(0) ELSE exit_code
    /\ UNCHANGED <<webhook_url, diagnostic>>
    /\ UNCHANGED probe
    /\ remote_streak' = StreakAfterFetch(remote_streak, call')
    /\ write_failed' = (write_failed \/ call'.write \in {"open_fails", "dump_fails"})
    /\ baseline_from' = IF call'.returned /\ call'.fetched = "entry"
                           THEN "fetch" ELSE baseline_from

\* check_version from the answer of webhook.execute() (line 91) to its return
\* (line 141), and main's assignment of the returned pair
WebhookReturns ==
    /\ hooks_in_flight > 0
    /\ hooks_in_flight' = hooks_in_flight - 1
    /\ \E outcome \in HookOutcomes :
          LET c == AfterWebhook(call, outcome)
          IN  IF pc = "webhook"
              THEN /\ call' = c
                   /\ current_sdk_version' = c.ret_version
                   /\ current_sdk_size' = c.ret_size
                   /\ pc' = AfterReturn(caller, c.ret_version, c.ret_size)
                   /\ hook_failed_for' =
                         IF outcome = "fail"
                            THEN [version |-> c.new_version, fileSize |-> c.new_size]
                         ELSE NoEntry
              \* nothing awaits the answer
              ELSE UNCHANGED <<call, current_sdk_version, current_sdk_size, pc,
                               hook_failed_for>>
    /\ UNCHANGED <<caller, lock_file, skipped, file_reads, init_fetches, persisted,
                   fetches_in_flight>>
    \* line 174: main returns and asyncio.run ends the process
    /\ exit_code' = IF pc' = "exited" THEN JInt(0) ELSE exit_code
    /\ UNCHANGED <<webhook_url, diagnostic>>
    /\ UNCHANGED probe
    /\ baseline_from' = IF pc = "webhook" THEN "fetch" ELSE baseline_from
    /\ UNCHANGED <<remote_streak, write_failed>>

\* one iteration of "while True", lines 175-179, up to its first await
LoopIteration ==
    /\ pc = "loop"
    /\ IF loop_guard(current_sdk_version, current_sdk_size)
       THEN /\ call' = BeginCall(current_sdk_version, current_sdk_size)
            /\ caller' = "loop"
            /\ skipped' = FALSE
            /\ fetches_in_flight' = fetches_in_flight + 1
            /\ pc' = "fetch"
       ELSE /\ skipped' = TRUE
            /\ pc' = "sleep"
            /\ UNCHANGED <<call, caller, fetches_in_flight>>
    /\ UNCHANGED <<current_sdk_version, current_sdk_size, lock_file, file_reads,
                   init_fetches, persisted, hook_failed_for>>
    /\ UNCHANGED <<webhook_url, exit_code, diagnostic>>
    /\ UNCHANGED probe
    /\ UNCHANGED hooks_in_flight
    /\ UNCHANGED <<remote_streak, baseline_from, write_failed>>

\* asyncio.sleep(10) returns, line 179
Wake ==
    /\ pc = "sleep"
    /\ pc' = "loop"
    /\ UNCHANGED <<caller, current_sdk_version, current_sdk_size, lock_file, call,
                   skipped, file_reads, init_fetches, persisted, hook_failed_for>>
    /\ UNCHANGED <<webhook_url, exit_code, diagnostic>>
    /\ UNCHANGED probe
    /\ UNCHANGED <<fetches_in_flight, hooks_in_flight>>
    /\ UNCHANGED <<remote_streak, baseline_from, write_failed>>

\* the operator interrupts the process (lines 180-182)
Interrupt ==
    /\ pc \in {"fetch", "webhook", "loop", "sleep"}
    /\ pc' = "interrupted"
    /\ UNCHANGED <<caller, current_sdk_version, current_sdk_size, lock_file, call,
                   skipped, file_reads, init_fetches, persisted, hook_failed_for>>
    /\ UNCHANGED <<webhook_url, exit_code, diagnostic>>
    /\ UNCHANGED probe
    \* asyncio.run cancels what main was awaiting
    /\ fetches_in_flight' = 0
    /\ hooks_in_flight' = 0
    /\ UNCHANGED <<remote_streak, baseline_from, write_failed>>

\* the process is started again: asyncio.run(main()) at line 185, LOCK_FILE as left
Restart ==
    /\ pc \in {"exit_1", "exited", "interrupted"}
    /\ pc' = "import"
    /\ webhook_url' \in EnvValues
    /\ exit_code' = JNull
    /\ diagnostic' = ""
    /\ caller' = "none"
    /\ current_sdk_version' = JNull
    /\ current_sdk_size' = JNull
    /\ call' = NoCall
    /\ skipped' = FALSE
    /\ file_reads' = 0
    /\ init_fetches' = 0
    /\ hook_failed_for' = NoEntry
    /\ UNCHANGED <<lock_file, persisted>>
    /\ UNCHANGED probe
    /\ fetches_in_flight' = 0
    /\ hooks_in_flight' = 0
    /\ remote_streak' = NoStreak
    /\ baseline_from' = "none"
    /\ write_failed' = FALSE

Next ==
    \/ ModuleLoad
    \/ Start
    \/ FetchReturns
    \/ WebhookReturns
    \/ LoopIteration
    \/ Wake
    \/ Interrupt
    \/ Restart

Spec == Init /\ [][Next]_vars

(***************************************************************************)
(* The functions on their own: one call of a function, on arguments drawn  *)
(* from a bounded set, with the process not started.                       *)
(***************************************************************************)
\* the state of a process that has not been started
NotStarted ==
    /\ pc = "import"
    /\ webhook_url = JNull
    /\ exit_code = JNull
    /\ diagnostic = ""
    /\ caller = "none"
    /\ current_sdk_version = JNull
    /\ current_sdk_size = JNull
    /\ lock_file = NoFile
    /\ call = NoCall
    /\ skipped = FALSE
    /\ file_reads = 0
    /\ init_fetches = 0
    /\ persisted = NoEntry
    /\ hook_failed_for = NoEntry
    /\ remote_streak = NoStreak
    /\ baseline_from = "none"
    /\ write_failed = FALSE
    /\ fetches_in_flight = 0
    /\ hooks_in_flight = 0
process_vars == <<pc, webhook_url, exit_code, diagnostic, caller, current_sdk_version,
                  current_sdk_size, lock_file, call, skipped, file_reads, init_fetches,
                  persisted, hook_failed_for, remote_streak, baseline_from,
                  write_failed, fetches_in_flight, hooks_in_flight>>

\* byte counts around which the output of HumanBytes.format changes: the unit
\* steps and their squares, a rounding tie (1.05 kB), a threshold tie (999.95 kB)
Landmarks == {0, 1000, 1024, 1050, 999950, 1000000, 1048576}
ByteCounts == {m \in UNION {(c - Window)..(c + Window) : c \in Landmarks} : m >= 0}
SignedByteCounts == ByteCounts \cup {0 - m : m \in ByteCounts}

\* the calls made: get_version_details on every response of the endpoint,
\* HumanBytes.format on every byte count, unit system and precision,
\* send_discord_webhook on every pair of byte counts
ProbeCalls ==
    {[fn |-> "get_version_details", in |-> resp, out |-> <<>>, done |-> FALSE] :
        resp \in Responses}
    \cup {[fn |-> "HumanBytes.format",
           in |-> [num |-> m, metric |-> metric, precision |-> precision],
           out |-> <<>>, done |-> FALSE] :
              m \in SignedByteCounts, metric \in BOOLEAN, precision \in Precisions}
    \cup {[fn |-> "send_discord_webhook",
           in |-> [version |-> "1.0.1", file_size |-> new, old_version |-> "1.0.0",
                   old_size |-> old],
           out |-> <<>>, done |-> FALSE] :
              new \in ByteCounts, old \in ByteCounts}

ProbeInit ==
    /\ NotStarted
    /\ probe \in ProbeCalls

\* get_version_details runs (lines 93-113) on the response probe.in
CallGetVersionDetails ==
    /\ probe.fn = "get_version_details"
    /\ ~probe.done
    /\ probe' = [probe EXCEPT !.out = get_version_details(probe.in), !.done = TRUE]
    /\ UNCHANGED process_vars

\* HumanBytes.format runs (lines 33-68) on the arguments probe.in
CallFormat ==
    /\ probe.fn = "HumanBytes.format"
    /\ ~probe.done
    /\ \E fp_up \in BOOLEAN :
          probe' = [probe EXCEPT !.out = HumanBytes_format(probe.in.num, probe.in.metric,
                                                          probe.in.precision, fp_up),
                                 !.done = TRUE]
    /\ UNCHANGED process_vars

\* send_discord_webhook runs (lines 70-91) on the arguments probe.in, up to
\* webhook.execute(): probe.out is the list of the embed's fields
CallSendDiscordWebhook ==
    /\ probe.fn = "send_discord_webhook"
    /\ ~probe.done
    /\ \E fp_up \in BOOLEAN :
          probe' = [probe EXCEPT !.out = EmbedFields(probe.in.version, probe.in.file_size,
                                                    probe.in.old_version,
                                                    probe.in.old_size, fp_up),
                                 !.done = TRUE]
    /\ UNCHANGED process_vars

ProbeNext ==
    \/ CallGetVersionDetails
    \/ CallFormat
    \/ CallSendDiscordWebhook

ProbeSpec == ProbeInit /\ [][ProbeNext]_vars

(***************************************************************************)
(* Properties.                                                             *)
(***************************************************************************)
\* the record the running (or last) call fetched
Fetched == [version |-> call.new_version, fileSize |-> call.new_size]
\* the call c fetched a record that differs from its arguments in some field
Changed(c) ==
    /\ c.fetched = "entry"
    /\ (c.new_version # c.arg_version \/ c.new_size # c.arg_size)
\* the call c fetched a record equal to its arguments in both fields
Unchanged(c) ==
    /\ c.fetched = "entry"
    /\ c.new_version = c.arg_version
    /\ c.new_size = c.arg_size
\* a VersionRecord: the version a string, the size an integer
IsRecord(version, size) == version.t = "str" /\ size.t = "int"
\* a valid VersionRecord: a non-empty version and a positive size
IsValidRecord(version, size) == IsRecord(version, size) /\ version.s # "" /\ size.n > 0
\* the pair main holds is the placeholder of line 168, not a record
Placeholder == current_sdk_version = JStr("INVALID") /\ current_sdk_size = JInt(0)

\* C1: a tick of the loop whose fetched record R (a valid record) differs from
\* the baseline B in the version, the size or both returns R, writes LOCK_FILE
\* exactly once, with R, and calls the notification exactly once, with
\* (R.version, R.fileSize, B.version, B.fileSize).
C1_ChangeWritesAndNotifiesOnce ==
    (/\ caller = "loop"
     /\ call.returned
     /\ Changed(call)
     /\ IsValidRecord(call.new_version, call.new_size)) =>
        /\ call.ret_version = call.new_version
        /\ call.ret_size = call.new_size
        /\ call.writes = <<JsonDump(Fetched)>>
        /\ call.notifs = <<NotifyArgs(call.new_version, call.new_size,
                                      call.arg_version, call.arg_size)>>

\* C2: a tick whose fetched record equals the baseline in both fields returns
\* the baseline unchanged, leaves LOCK_FILE as it is and sends no notification.
C2_NoChangeNoEffect ==
    [][(pc = "fetch" /\ Unchanged(call')) =>
          /\ call'.returned
          /\ call'.ret_version = call.arg_version
          /\ call'.ret_size = call.arg_size
          /\ current_sdk_version' = call.arg_version
          /\ current_sdk_size' = call.arg_size
          /\ call'.writes = <<>>
          /\ call'.notifs = <<>>
          /\ lock_file' = lock_file]_vars
\* a tick of the loop has fetched the baseline it holds and has returned
C2_Witness ==
    /\ pc = "sleep"
    /\ caller = "loop"
    /\ call.returned
    /\ Unchanged(call)
    /\ lock_file.kind = "doc"

\* C3: when the fetch yields nothing (the request fails, the status is not 200,
\* "versions" is missing or empty) check_version returns the pair it was given,
\* LOCK_FILE is not written and no notification is sent; in the loop main then
\* sleeps, still holding the baseline, and the next iteration ticks again.
C3_FetchNothingNoEffect ==
    [][(pc = "fetch" /\ call'.fetched \in {"none", "RequestError"}) =>
          /\ call'.returned
          /\ call'.ret_version = call.arg_version
          /\ call'.ret_size = call.arg_size
          /\ call'.writes = <<>>
          /\ call'.notifs = <<>>
          /\ lock_file' = lock_file
          /\ (caller = "loop" =>
                /\ pc' = "sleep"
                /\ current_sdk_version' = current_sdk_version
                /\ current_sdk_size' = current_sdk_size
                /\ Truthy(current_sdk_version') /\ Truthy(current_sdk_size'))]_vars
\* a tick of the loop got nothing from the fetch and main sleeps
C3_Witness ==
    /\ pc = "sleep"
    /\ caller = "loop"
    /\ call.returned
    /\ call.fetched \in {"none", "RequestError"}
    /\ current_sdk_version = call.arg_version
    /\ current_sdk_size = call.arg_size

\* C4: first-run initialization is silent: when no baseline was loaded and the
\* initializing fetch returns a (valid) record R, the baseline becomes R and no
\* notification is sent during the initialization.
C4_SilentInitialization ==
    (/\ caller = "init"
     /\ call.fetched = "entry"
     /\ IsValidRecord(call.new_version, call.new_size)) =>
        /\ call.notifs = <<>>
        /\ (call.returned =>
              current_sdk_version = call.new_version /\ current_sdk_size = call.new_size)

\* C5: when no baseline was loaded and the initializing fetch fails (the
\* request fails, the status is not 200, "versions" is missing or empty), main
\* exits (line 174) and never enters the loop.
C5_InitFailureTerminates ==
    (caller = "init" /\ call.returned /\ call.fetched \in {"none", "RequestError"}) =>
        pc = "exited"

\* C6: once the baseline is set and the loop is entered, every iteration calls
\* check_version (one fetch) and then sleeps, whatever record the baseline is,
\* a fetched one with fileSize 0 or an empty or null version included; the
\* process never stays in the loop without polling and never exits by itself.
C6_LoopAlwaysPolls ==
    (pc \in {"loop", "fetch", "webhook", "sleep"} /\ ~Placeholder) =>
        /\ ~skipped
        /\ (pc = "loop" => loop_guard(current_sdk_version, current_sdk_size))
        /\ (pc \in {"fetch", "webhook"} => call.fetches = 1)

\* C7: when a tick of the loop detects a change to R and the write of LOCK_FILE
\* fails, the process stays alive, check_version returns R, main holds R, and
\* the next iteration of the loop ticks again.
C7_WriteFailureLoopContinues ==
    (/\ caller = "loop"
     /\ call.returned
     /\ Changed(call)
     /\ IsRecord(call.new_version, call.new_size)
     /\ call.write \in {"open_fails", "dump_fails"}) =>
        /\ pc \in {"sleep", "loop", "interrupted"}
        /\ call.ret_version = call.new_version
        /\ call.ret_size = call.new_size
        /\ current_sdk_version = call.new_version
        /\ current_sdk_size = call.new_size
        /\ loop_guard(current_sdk_version, current_sdk_size)

\* C8: when a tick detects a change to R and the webhook fails, the tick is
\* not aborted: check_version returns R, main holds R and LOCK_FILE holds R;
\* and the notification is never retried: while R stays the latest record, a
\* later tick of the run that fetches R sends no notification.
C8_WebhookFailureCommitsNoRetry ==
    [][/\ (pc = "webhook" /\ call'.hook = "fail") =>
             /\ call'.returned
             /\ call'.ret_version = call.new_version
             /\ call'.ret_size = call.new_size
             /\ current_sdk_version' = call.new_version
             /\ current_sdk_size' = call.new_size
             /\ lock_file' = JsonDump(Fetched)
       /\ (/\ pc = "fetch"
           /\ hook_failed_for # NoEntry
           /\ call'.fetched = "entry"
           /\ call'.new_version = hook_failed_for.version
           /\ call'.new_size = hook_failed_for.fileSize) =>
             /\ call'.returned
             /\ call'.notifs = <<>>
             /\ hook_failed_for' = hook_failed_for]_vars
\* after a failed webhook for R a later tick has fetched R again and sent nothing
C8_Witness ==
    /\ pc = "sleep"
    /\ caller = "loop"
    /\ hook_failed_for # NoEntry
    /\ call.returned
    /\ call.fetched = "entry"
    /\ Fetched = hook_failed_for
    /\ call.hook = "none"
    /\ call.notifs = <<>>
    /\ lock_file = JsonDump(hook_failed_for)

\* C9: round trip: for every record (any version string, any non-negative
\* fileSize) that a tick persisted to LOCK_FILE, the next start of the process
\* loads a pair equal to it in both fields and enters the loop with that pair
\* as the baseline.  Stated for the non-empty version strings, the records
\* whose version is beyond dispute.
C9_PersistedRecordIsNextBaseline ==
    [][(/\ pc = "start"
        /\ persisted # NoEntry
        /\ IsRecord(persisted.version, persisted.fileSize)
        /\ persisted.version.s # "") =>
          /\ current_sdk_version' = persisted.version
          /\ current_sdk_size' = persisted.fileSize
          /\ pc' = "loop"]_vars

\* LOCK_FILE is absent, unreadable, or lacks the version or the fileSize field
FileLacksBaseline(f) == f.kind # "doc" \/ f.version = "" \/ f.fileSize = ""
\* LOCK_FILE holds a valid record: both fields present, not null and not empty
\* (a fileSize of 0 counts as empty, as a version of "" does)
FileHoldsValidRecord(f) ==
    /\ f.kind = "doc"
    /\ f.version \notin {"", "null", "\"\""}
    /\ f.fileSize \notin {"", "null", "0"}

C11_MissingConfigExitsBeforePolling ==
    [][(webhook_url' = JNull \/ webhook_url' = JStr("")) =>
          /\ pc' \in {"import", "exit_1"}
          /\ call' = NoCall
          /\ file_reads' = 0
          /\ init_fetches' = 0
          /\ (pc = "import" =>
                /\ pc' = "exit_1"
                /\ exit_code'.t = "int" /\ exit_code'.n # 0
                /\ diagnostic' # ""
                /\ lock_file' = lock_file)]_vars
\* a run with an empty DISCORD_WEBHOOK_URL has ended at line 20, a baseline file
\* being there to read
C11_Witness ==
    /\ pc = "exit_1"
    /\ webhook_url = JStr("")
    /\ exit_code = JInt(1)
    /\ lock_file.kind = "doc"

\* C12: for every response with status 200 whose "versions" list is not empty
\* and whose last entry carries a fileSize that is an integer or a string of
\* digits, get_version_details returns the entry at the last position of the
\* list, whatever the versions and sizes of the entries before it, with the
\* version as it came and the fileSize as the integer it denotes; no result of
\* the function is ever taken from another position.
C12_FetchLatestIsLastByPosition ==
    (/\ probe.fn = "get_version_details"
     /\ probe.done
     /\ probe.in.net = "ok" /\ probe.in.status = 200
     /\ probe.in.json /\ probe.in.hasVersions
     /\ Len(probe.in.versions) > 0) =>
        LET last == probe.in.versions[Len(probe.in.versions)]
            numeric == \/ last.fileSize.t = "int"
                       \/ /\ last.fileSize.t = "str"
                          /\ \E k \in Sizes : IntToStr(k) = last.fileSize.s
            number == IF last.fileSize.t = "int" THEN last.fileSize.n
                      ELSE CHOOSE k \in Sizes : IntToStr(k) = last.fileSize.s
        IN  /\ numeric =>
                 /\ probe.out.kind = "entry"
                 /\ probe.out.entry.version = last.version
                 /\ probe.out.entry.fileSize = JInt(number)
            /\ probe.out.kind = "entry" => probe.out.entry.version = last.version
\* the last of two entries is returned although the first has the greater
\* version and the greater size; its fileSize came as a string of digits
C12_Witness ==
    /\ probe.fn = "get_version_details"
    /\ probe.done
    /\ Len(probe.in.versions) = 2
    /\ probe.in.versions[1] = [version |-> JStr("1.0.1"), fileSize |-> JInt(2)]
    /\ probe.in.versions[2] = [version |-> JStr("1.0.0"), fileSize |-> JStr("1")]
    /\ probe.out = [kind |-> "entry",
                    entry |-> [version |-> JStr("1.0.0"), fileSize |-> JInt(1)]]

\* the "Size Change" fields of the embed send_discord_webhook has built
DeltaFields == SelectSeq(probe.out, LAMBDA field : field.name = "Size Change")
\* the delta string of a "Size Change" field: the text Discord renders
DeltaString(field) == field.text

\* C13: the embed send_discord_webhook builds has one "Size Change" field
\* whose delta string begins with "+" when the new size is greater than the
\* old one, one whose delta string begins with "-" when it is smaller, and no
\* "Size Change" field at all when the two sizes are equal.
C13_SignedDelta ==
    (probe.fn = "send_discord_webhook" /\ probe.done) =>
        /\ probe.in.file_size > probe.in.old_size =>
              /\ Len(DeltaFields) = 1
              /\ SubSeq(DeltaString(DeltaFields[1]), 1, 1) = "+"
        /\ probe.in.file_size < probe.in.old_size =>
              /\ Len(DeltaFields) = 1
              /\ SubSeq(DeltaString(DeltaFields[1]), 1, 1) = "-"
        /\ probe.in.file_size = probe.in.old_size => Len(DeltaFields) = 0
\* the size went from 1000 to 1024 bytes: the delta field reads +24.000 B
C13_Witness ==
    /\ probe.fn = "send_discord_webhook"
    /\ probe.done
    /\ probe.in.old_size = 1000
    /\ probe.in.file_size = 1024
    /\ Len(DeltaFields) = 1
    /\ DeltaFields[1].text = "+24.000 B"

\* the string str ends with the string suffix
EndsWith(str, suffix) ==
    /\ Len(str) >= Len(suffix)
    /\ SubSeq(str, Len(str) - Len(suffix) + 1, Len(str)) = suffix
\* HumanBytes.format(num, metric=True), with the default precision, has returned
MetricFormatDone(num) ==
    /\ probe.fn = "HumanBytes.format"
    /\ probe.done
    /\ probe.in.metric
    /\ probe.in.precision = 1
    /\ probe.in.num = num

\* C14 as stated: HumanBytes.format(1023, metric=True) gives a string with the
\* unit B, and HumanBytes.format(1000000, metric=True) gives "1.0 MB".
C14_Original ==
    /\ MetricFormatDone(1023) => EndsWith(probe.out, " B")
    /\ MetricFormatDone(1000000) => probe.out = "1.0 MB"
\* C14: in metric mode with the default precision the unit steps are powers of
\* 1000: a count below 1000 is rendered in B with one decimal ("999.0 B"),
\* 1023 bytes give "1.0 kB", and 1000000 bytes give "1.0 MB".
C14_MetricFormatting ==
    /\ MetricFormatDone(1023) => probe.out = "1.0 kB"
    /\ MetricFormatDone(1000000) => probe.out = "1.0 MB"
    /\ \A m \in 0..999 : MetricFormatDone(m) => probe.out = IntToStr(m) \o ".0 B"
\* 1023 bytes have been formatted in metric mode: one step of 1000 was taken
C14_Witness ==
    /\ MetricFormatDone(1023)
    /\ probe.out = "1.0 kB"

\* the entry lacks "version" or "fileSize", or its fileSize is not a number
\* and not a string of digits
LacksSubfield(entry) ==
    \/ entry.version = JMissing
    \/ entry.fileSize = JMissing
    \/ entry.fileSize = JNull
    \/ /\ entry.fileSize.t = "str"
       /\ \A k \in Sizes : IntToStr(k) # entry.fileSize.s

\* C15: when the last entry of the response lacks "version" or "fileSize", or
\* its fileSize cannot be made an integer, check_version obtains no record: it
\* returns the pair it was given, with no value put in place of the missing
\* one, writes nothing to LOCK_FILE and sends no notification; in the loop
\* main keeps the baseline it held and sleeps.
C15_MalformedEntryIsNoRecord ==
    [][(/\ pc = "fetch"
        /\ call'.fetched \in {"entry", "KeyError", "ValueError", "TypeError"}
        /\ LacksSubfield(call'.received)) =>
          /\ call'.fetched # "entry"
          /\ call'.returned
          /\ call'.ret_version = call.arg_version
          /\ call'.ret_size = call.arg_size
          /\ call'.writes = <<>>
          /\ call'.notifs = <<>>
          /\ lock_file' = lock_file
          /\ (caller = "loop" =>
                /\ pc' = "sleep"
                /\ current_sdk_version' = current_sdk_version
                /\ current_sdk_size' = current_sdk_size)]_vars
\* a tick of the loop received a last entry without "version": main sleeps
\* with the baseline it passed, the file as it was
C15_Witness ==
    /\ pc = "sleep"
    /\ caller = "loop"
    /\ call.returned
    /\ call.received = [version |-> JMissing, fileSize |-> JInt(1)]
    /\ call.fetched = "KeyError"
    /\ current_sdk_version = call.arg_version
    /\ current_sdk_size = call.arg_size
    /\ call.writes = <<>>

\* C16: ticks never overlap.  At most one GET and at most one webhook call
\* are outstanding, and never both; a webhook call is outstanding only while
\* check_version waits for it, after its write of LOCK_FILE; when main is at
\* the head of the loop or sleeps nothing is outstanding and the tick that
\* ran has returned.
C16_TicksNeverOverlap ==
    /\ fetches_in_flight <= 1
    /\ hooks_in_flight <= 1
    /\ fetches_in_flight + hooks_in_flight <= 1
    /\ (fetches_in_flight = 1 => pc = "fetch")
    /\ (hooks_in_flight = 1 => pc = "webhook" /\ call.write = "ok" /\ ~call.returned)
    /\ (pc \in {"loop", "sleep"} =>
          /\ fetches_in_flight = 0
          /\ hooks_in_flight = 0
          /\ (caller = "loop" => call.returned))
\* a tick of the loop waits for the webhook: one notification and no fetch
\* is outstanding
C16_Witness ==
    /\ pc = "webhook"
    /\ caller = "loop"
    /\ hooks_in_flight = 1
    /\ fetches_in_flight = 0
    /\ call.write = "ok"

\* C17: a call of check_version attempts the notification for the record R it
\* fetched only after its json.dump of R has completed: while the webhook is
\* awaited LOCK_FILE holds R.  When the write fails the call attempts no
\* notification and returns R, so main's baseline is R; and for as long as
\* the fetches of the run keep obtaining R no notification is attempted for it.
C17_NotifyOnlyAfterWrite ==
    /\ (call.notifs # <<>> =>
          /\ call.write = "ok"
          /\ call.writes = <<JsonDump(Fetched)>>
          /\ call.notifs[1].version = call.new_version
          /\ call.notifs[1].file_size = call.new_size)
    /\ (pc = "webhook" => lock_file = JsonDump(Fetched))
    /\ (call.write \in {"open_fails", "dump_fails"} =>
          /\ call.notifs = <<>>
          /\ call.returned
          /\ call.ret_version = call.new_version
          /\ call.ret_size = call.new_size)
    /\ (remote_streak.write_failed => remote_streak.notifs = 0)
\* the write of R failed in an earlier tick; a later tick of the loop has
\* fetched R again, found it equal to the baseline and stayed silent
C17_Witness ==
    /\ pc = "sleep"
    /\ caller = "loop"
    /\ remote_streak.write_failed
    /\ remote_streak.notifs = 0
    /\ remote_streak.rec = Fetched
    /\ Unchanged(call)
    /\ call.write = "none"
    /\ call.returned

\* C18: every notification a call of check_version attempts carries, as the
\* old record, the pair the call was given (in the loop the baseline main
\* holds while the tick runs, at line 168 the placeholder) and, as the new
\* record, the fetched one, which differs from the old in some field; a call
\* attempts at most one notification; and for as long as the fetches of one
\* run keep obtaining the same record, whatever fetches, writes and webhook
\* calls fail in between, at most one notification is attempted.
C18_NoDuplicateNotification ==
    /\ \A i \in 1..Len(call.notifs) :
          /\ call.notifs[i].old_version = call.arg_version
          /\ call.notifs[i].old_size = call.arg_size
          /\ call.notifs[i].version = call.new_version
          /\ call.notifs[i].file_size = call.new_size
          /\ \/ call.notifs[i].version # call.notifs[i].old_version
             \/ call.notifs[i].file_size # call.notifs[i].old_size
    /\ Len(call.notifs) <= 1
    /\ (caller = "loop" /\ pc \in {"fetch", "webhook"} =>
          /\ call.arg_version = current_sdk_version
          /\ call.arg_size = current_sdk_size)
    /\ (caller = "init" =>
          call.arg_version = JStr("INVALID") /\ call.arg_size = JInt(0))
    /\ remote_streak.notifs <= 1
\* the webhook for R failed in an earlier tick; a later tick of the loop has
\* fetched R again and attempted no second notification
C18_Witness ==
    /\ pc = "sleep"
    /\ caller = "loop"
    /\ remote_streak.notifs = 1
    /\ remote_streak.rec = Fetched
    /\ hook_failed_for = Fetched
    /\ Unchanged(call)
    /\ call.notifs = <<>>
    /\ call.returned

\* C19: whenever main is at the head of the loop or sleeps, its baseline came
\* from a valid file or from a fetch that obtained a record, and no write of
\* LOCK_FILE has failed in this run, LOCK_FILE holds a JSON object whose
\* version and fileSize equal main's current_sdk_version and
\* current_sdk_size; the two differ only in runs where a write has failed.
C19_FileAgreesWithBaseline ==
    (/\ pc \in {"loop", "sleep"}
     /\ baseline_from \in {"file", "fetch"}
     /\ ~write_failed) =>
        /\ lock_file.kind = "doc"
        /\ JsonLoad(lock_file).version = current_sdk_version
        /\ JsonLoad(lock_file).fileSize = current_sdk_size
\* a run that loaded its baseline from the file has adopted a changed record
\* in a tick of the loop, the write having succeeded, and sleeps
C19_Witness ==
    /\ pc = "sleep"
    /\ caller = "loop"
    /\ init_fetches = 0
    /\ file_reads = 1
    /\ ~write_failed
    /\ Changed(call)
    /\ call.write = "ok"
    /\ call.returned
    /\ current_sdk_version = call.new_version
    /\ current_sdk_size = call.new_size
    /\ lock_file = JsonDump(Fetched)

=============================================================================
